---- MODULE Spec2Model ----
\* The tick engine of cardinal/gamestate (tick.go): the two durable tick
\* counters, the pending-transaction journal, StartNextTick / FinalizeTick /
\* Recover / GetTickNumbers, and the simulation loop that drives them.
EXTENDS Integers, Sequences, FiniteSets, TLC

\* ------------------------------------------------------------------ bounds
MaxTick == 2        \* ticks started in one behaviour
MaxTxs == 2         \* transactions in one pool
MaxCrash == 1       \* process crashes in one behaviour

\* ------------------------------------------------------------ value domains
MsgIDs == {1, 2}                \* types.MessageID of the message descriptors
BadMsg == 0                     \* a payload the descriptor's Encode rejects
Msgs == {BadMsg, 1}             \* payloads (TxData.Msg)
CompKeySeq == <<"c1", "c2">>    \* component keys of the game state
CompKeys == {CompKeySeq[i] : i \in 1..Len(CompKeySeq)}
CompVals == {1}                 \* component values
ArchIDs == {1}                  \* archetype IDs created while simulating

\* ---------------------------------------------------------- backend storage
\* A key of the backend holds Nil (never written, redis.Nil) or Some(value).
Nil == <<>>
Some(v) == <<v>>

storageStartTickKey == "ECB:START-TICK"
storageEndTickKey == "ECB:END-TICK"
storagePendingTransactionKey == "ECB:PENDING-TRANSACTIONS"
TickKeys == {storageStartTickKey, storageEndTickKey, storagePendingTransactionKey}
KeySpace == TickKeys \cup CompKeys

VARIABLES
    dbStorage,      \* m.dbStorage: the durable key-value backend, KeySpace -> Nil | Some(v)
    compValues,     \* m.compValues: the in-memory mutation set, component key -> value
    pendingArchIDs, \* m.pendingArchIDs
    pc,             \* position of the simulation loop
    ret,            \* what the last step returned: the operation and its results,
                    \* or Running when the step did not end a call
    inflight,       \* history: the last committed StartNextTick (how many so far, its
                    \* arguments, and its phase: "started", "interrupted" by a crash,
                    \* "recovered" after the crash, and once a FinalizeTick committed
                    \* "resolved" if it had been recovered, else "none")
    serial,         \* history: every StartNextTick so far was issued with start = end
                    \* and every FinalizeTick with start = end + 1
    crashes,        \* history: number of process crashes so far
    calls,          \* the calls in progress: per caller the operation, its position
                    \* in the code, its pipeline and what it has read so far
    pre             \* history: the store, the memory and the last result as they
                    \* were when the call in progress of the single caller began

vars == <<dbStorage, compValues, pendingArchIDs, pc, ret, inflight, serial, crashes, calls, pre>>

\* GetUInt64 with redis.Nil read as zero (tick.go:35-38, 42-45).
ReadUInt(v) == IF v = Nil THEN 0 ELSE v[1]

start == ReadUInt(dbStorage[storageStartTickKey])
end == ReadUInt(dbStorage[storageEndTickKey])

\* Commands queued on a pipeline.
SetCmd(k, v) == [op |-> "Set", key |-> k, val |-> v]
IncrCmd(k) == [op |-> "Incr", key |-> k, val |-> 0]

\* One command applied to the store: SET overwrites, INCR adds one to the
\* value read as an integer (an absent key counts as 0).
ApplyCmd(db, cmd) ==
    IF cmd.op = "Set"
    THEN [db EXCEPT ![cmd.key] = Some(cmd.val)]
    ELSE [db EXCEPT ![cmd.key] = Some(ReadUInt(db[cmd.key]) + 1)]

\* EndTransaction: the queued commands applied in order, all or nothing.
RECURSIVE EndTransaction(_, _)
EndTransaction(db, pipe) ==
    IF pipe = <<>> THEN db
    ELSE EndTransaction(ApplyCmd(db, Head(pipe)), Tail(pipe))

\* ---------------------------------------------------------- transaction pool
EmptyPool == [id \in MsgIDs |-> <<>>]

HashHex(tx) == tx + 100

\* txpool.AddTransaction: appends under the type, the hash derived from the
\* source transaction.
AddTransaction(pool, id, msg, tx) ==
    [pool EXCEPT ![id] = Append(@, [MsgID |-> id, Msg |-> msg,
                                    TxHash |-> HashHex(tx), Tx |-> tx])]

\* txpool.ForID
ForID(pool, id) == pool[id]

\* What a client submits: a message type and a payload. The k-th submission of
\* a tick carries the source transaction k (signed transactions are unique).
Submission == MsgIDs \X Msgs

RECURSIVE SeqsUpTo(_, _)
SeqsUpTo(S, n) ==
    IF n = 0 THEN {<<>>}
    ELSE LET shorter == SeqsUpTo(S, n - 1)
         IN shorter \cup {Append(s, x) : s \in shorter, x \in S}

RECURSIVE BuildPool(_)
BuildPool(subs) ==
    IF subs = <<>> THEN EmptyPool
    ELSE LET last == subs[Len(subs)]
         IN AddTransaction(BuildPool(SubSeq(subs, 1, Len(subs) - 1)),
                           last[1], last[2], Len(subs))

\* Every pool the loop can assemble with at most MaxTxs submissions.
Pools == {BuildPool(s) : s \in SeqsUpTo(Submission, MaxTxs)}

\* The pools whose payloads all encode.
EncodablePools == {BuildPool(s) : s \in SeqsUpTo(MsgIDs \X (Msgs \ {BadMsg}), MaxTxs)}

PoolTypes(pool) == {id \in MsgIDs : pool[id] # <<>>}

\* ------------------------------------------------------- message descriptors
\* A descriptor list is a sequence of message IDs. The world registers every
\* message once, and only registered messages are submitted to its pool.
DescLists == SeqsUpTo(MsgIDs, Cardinality(MsgIDs))
DescIDs(txs) == {txs[i] : i \in 1..Len(txs)}
Registry == <<1, 2>>

\* types.Message.Encode / Decode of the descriptor with the given ID.
EncodeOK(id, msg) == msg # BadMsg
Encode(id, msg) == <<id, msg + 10>>
DecodeOK(id, data) == Len(data) = 2 /\ data[1] = id
Decode(id, data) == data[2] - 10

\* codec.Encode / codec.Decode of []pendingTransaction
CodecEncode(pending) ==
    [i \in 1..Len(pending) |->
        <<pending[i].TypeID, pending[i].TxHash, pending[i].Data, pending[i].Tx>>]
CodecDecode(bz) ==
    [i \in 1..Len(bz) |->
        [TypeID |-> bz[i][1], TxHash |-> bz[i][2], Data |-> bz[i][3], Tx |-> bz[i][4]]]

\* ------------------------------------------------------------ StartNextTick
\* Where a call can fail: a step of the backend that returns an error.
StartFails == {"none", "StartTransaction", "codec.Encode", "Set", "Incr", "EndTransaction"}

\* tick.go:161-180: one pendingTransaction per (descriptor, transaction of
\* that descriptor's ID), descriptors in list order, transactions in pool order.
PendingOfList(id, list) ==
    [i \in 1..Len(list) |->
        [TypeID |-> id, TxHash |-> list[i].TxHash,
         Data |-> Encode(id, list[i].Msg), Tx |-> list[i].Tx]]

Reverse(s) == [i \in 1..Len(s) |-> s[Len(s) + 1 - i]]

\* Mutant: the transactions of a type journalled newest first.
RECURSIVE PendingOfNewestFirst(_, _)
PendingOfNewestFirst(txs, pool) ==
    IF txs = <<>> THEN <<>>
    ELSE Reverse(PendingOfList(Head(txs), ForID(pool, Head(txs))))
            \o PendingOfNewestFirst(Tail(txs), pool)

\* Mutant: only the first transaction of each type journalled.
RECURSIVE PendingOfFirstOnly(_, _)
PendingOfFirstOnly(txs, pool) ==
    IF txs = <<>> THEN <<>>
    ELSE PendingOfList(Head(txs),
                       SubSeq(ForID(pool, Head(txs)), 1,
                              IF ForID(pool, Head(txs)) = <<>> THEN 0 ELSE 1))
            \o PendingOfFirstOnly(Tail(txs), pool)

RECURSIVE PendingOf(_, _)
PendingOf(txs, pool) ==
    IF txs = <<>> THEN <<>>
    ELSE PendingOfList(Head(txs), ForID(pool, Head(txs))) \o PendingOf(Tail(txs), pool)

\* tick.go:165-170: Encode of some visited payload returns an error.
EncodeFails(txs, pool) ==
    \E i \in 1..Len(txs) : \E j \in 1..Len(ForID(pool, txs[i])) :
        ~EncodeOK(txs[i], ForID(pool, txs[i])[j].Msg)

\* Mutant: nothing queued for the journal key when there is nothing pending.
addPendingTransactionSkipsEmpty(pipe, txs, pool, fail) ==
    IF EncodeFails(txs, pool)
    THEN [err |-> "encode", pipe |-> pipe]
    ELSE IF fail = "codec.Encode"
    THEN [err |-> "codec", pipe |-> pipe]
    ELSE IF fail = "Set"
    THEN [err |-> "failed to set pending transaction", pipe |-> pipe]
    ELSE IF PendingOf(txs, pool) = <<>>
    THEN [err |-> "nil", pipe |-> pipe]
    ELSE [err |-> "nil",
          pipe |-> Append(pipe, SetCmd(storagePendingTransactionKey,
                                       CodecEncode(PendingOf(txs, pool))))]

addPendingTransactionToPipe(pipe, txs, pool, fail) ==
    IF EncodeFails(txs, pool)
    THEN [err |-> "encode", pipe |-> pipe]
    ELSE IF fail = "codec.Encode"
    THEN [err |-> "codec", pipe |-> pipe]
    ELSE IF fail = "Set"
    THEN [err |-> "failed to set pending transaction", pipe |-> pipe]
    ELSE [err |-> "nil",
          pipe |-> Append(pipe, SetCmd(storagePendingTransactionKey,
                                       CodecEncode(PendingOf(txs, pool))))]

\* Mutant: no pipeline, every command applied to the store when it is issued.
StartNextTickUnpiped(db, txs, pool, fail) ==
    IF fail = "StartTransaction"
    THEN [err |-> "failed to start transaction", db |-> db]
    ELSE LET added == addPendingTransactionToPipe(<<>>, txs, pool, fail)
             db1 == EndTransaction(db, added.pipe)
             db2 == ApplyCmd(db1, IncrCmd(storageStartTickKey))
         IN IF added.err # "nil"
            THEN [err |-> "failed to add pending transaction to pipe", db |-> db]
            ELSE IF fail = "Incr"
            THEN [err |-> "failed to increment start tick key", db |-> db1]
            ELSE IF fail = "EndTransaction"
            THEN [err |-> "failed to end transaction", db |-> db2]
            ELSE [err |-> "nil", db |-> db2]

\* Mutant: the increment queued on the end tick key.
StartNextTickWrongKey(db, txs, pool, fail) ==
    IF fail = "StartTransaction"
    THEN [err |-> "failed to start transaction", db |-> db]
    ELSE LET added == addPendingTransactionToPipe(<<>>, txs, pool, fail)
         IN IF added.err # "nil"
            THEN [err |-> "failed to add pending transaction to pipe", db |-> db]
            ELSE IF fail = "Incr"
            THEN [err |-> "failed to increment start tick key", db |-> db]
            ELSE IF fail = "EndTransaction"
            THEN [err |-> "failed to end transaction", db |-> db]
            ELSE [err |-> "nil",
                  db |-> EndTransaction(db,
                            Append(added.pipe, IncrCmd(storageEndTickKey)))]

\* Mutant: the error of EndTransaction returned although the pipeline was applied.
StartNextTickCommitsOnError(db, txs, pool, fail) ==
    IF fail = "StartTransaction"
    THEN [err |-> "failed to start transaction", db |-> db]
    ELSE LET added == addPendingTransactionToPipe(<<>>, txs, pool, fail)
             db2 == EndTransaction(db, Append(added.pipe, IncrCmd(storageStartTickKey)))
         IN IF added.err # "nil"
            THEN [err |-> "failed to add pending transaction to pipe", db |-> db]
            ELSE IF fail = "Incr"
            THEN [err |-> "failed to increment start tick key", db |-> db]
            ELSE IF fail = "EndTransaction"
            THEN [err |-> "failed to end transaction", db |-> db2]
            ELSE [err |-> "nil", db |-> db2]

\* tick.go:54-84 on the store db: the error returned and the store afterwards.
StartNextTickResult(db, txs, pool, fail) ==
    IF fail = "StartTransaction"
    THEN [err |-> "failed to start transaction", db |-> db]
    ELSE LET added == addPendingTransactionToPipe(<<>>, txs, pool, fail)
         IN IF added.err # "nil"
            THEN [err |-> "failed to add pending transaction to pipe", db |-> db]
            ELSE IF fail = "Incr"
            THEN [err |-> "failed to increment start tick key", db |-> db]
            ELSE IF fail = "EndTransaction"
            THEN [err |-> "failed to end transaction", db |-> db]
            ELSE [err |-> "nil",
                  db |-> EndTransaction(db,
                            Append(added.pipe, IncrCmd(storageStartTickKey)))]

Returned(op, err) ==
    [op |-> op, err |-> err, start |-> 0, end |-> 0, txs |-> <<>>, pool |-> EmptyPool]

\* A step inside a call: nothing is returned yet.
Running == Returned("Running", "nil")

StartNextTick(txs, pool, fail) ==
    LET r == StartNextTickResult(dbStorage, txs, pool, fail)
    IN /\ dbStorage' = r.db
       /\ ret' = Returned("StartNextTick", r.err)
       /\ inflight' = IF r.err = "nil"
                      THEN [n |-> inflight.n + 1, txs |-> txs, pool |-> pool,
                            phase |-> "started"]
                      ELSE inflight
       /\ serial' = (serial /\ start = end)
       /\ UNCHANGED <<compValues, pendingArchIDs, calls>>

\* ------------------------------------------------------------- FinalizeTick
FinalizeFails == {"none", "makePipe", "Incr", "EndTransaction", "DiscardPending"}

NoPending == [k \in CompKeys |-> Nil]

\* The callers of the command buffer (tick.go holds no lock) and a caller with
\* no call in progress.
Callers == {1, 2}
Idle ==
    [op |-> "none", pos |-> "idle", pipe |-> <<>>, pool |-> EmptyPool,
     seen |-> NoPending, got |-> 0]
NoCall == \A c \in Callers : calls[c] = Idle

\* What is remembered of the state in which a call began: kept while the call
\* of caller 1, the single caller of the loop, is in progress.
Snapshot == [db |-> dbStorage, comp |-> compValues, archs |-> pendingArchIDs, ret |-> ret]
NoSnapshot ==
    [db |-> [k \in KeySpace |-> Nil], comp |-> NoPending, archs |-> {},
     ret |-> Returned("New", "nil")]
Remember ==
    pre' = IF calls'[1] = Idle THEN NoSnapshot
           ELSE IF calls[1] = Idle THEN Snapshot ELSE pre

\* makePipeOfRedisCommands: a pipeline holding one write per pending
\* component value.
RECURSIVE CompCmds(_, _)
CompCmds(keys, comp) ==
    IF keys = <<>> THEN <<>>
    ELSE (IF comp[Head(keys)] = Nil THEN <<>>
          ELSE <<SetCmd(Head(keys), comp[Head(keys)][1])>>) \o CompCmds(Tail(keys), comp)

makePipeOfRedisCommands(comp, fail) ==
    IF fail = "makePipe"
    THEN [err |-> "makePipe", pipe |-> <<>>]
    ELSE [err |-> "nil", pipe |-> CompCmds(CompKeySeq, comp)]

\* DiscardPending: drops the pending mutation set, or returns an error.
DiscardPending(comp, fail) ==
    IF fail = "DiscardPending"
    THEN [err |-> "discard", comp |-> comp]
    ELSE [err |-> "nil", comp |-> NoPending]

\* Mutant: no pipeline, the component writes applied when they are issued.
FinalizeTickUnpiped(db, seen, comp, archs, fail) ==
    LET made == makePipeOfRedisCommands(seen, fail)
        db1 == EndTransaction(db, made.pipe)
        db2 == ApplyCmd(db1, IncrCmd(storageEndTickKey))
        disc == DiscardPending(comp, fail)
    IN IF made.err # "nil"
       THEN [err |-> "failed to make redis commands pipe", db |-> db, comp |-> comp,
             archs |-> archs, committed |-> FALSE]
       ELSE IF fail = "Incr"
       THEN [err |-> "failed to increment end tick key", db |-> db1, comp |-> comp,
             archs |-> archs, committed |-> FALSE]
       ELSE IF fail = "EndTransaction"
       THEN [err |-> "failed to end transaction", db |-> db2, comp |-> comp,
             archs |-> archs, committed |-> FALSE]
       ELSE [err |-> IF disc.err # "nil"
                     THEN "failed to discard pending transaction" ELSE "nil",
             db |-> db2, comp |-> disc.comp, archs |-> {}, committed |-> TRUE]

\* Mutant: the in-memory state cleared before the pipeline is committed.
FinalizeTickClearsEarly(db, seen, comp, archs, fail) ==
    LET made == makePipeOfRedisCommands(seen, fail)
        drop(e) == [err |-> e, db |-> db, comp |-> NoPending, archs |-> {},
                    committed |-> FALSE]
    IN IF made.err # "nil"
       THEN [err |-> "failed to make redis commands pipe", db |-> db, comp |-> comp,
             archs |-> archs, committed |-> FALSE]
       ELSE IF fail = "Incr"
       THEN drop("failed to increment end tick key")
       ELSE IF fail = "EndTransaction"
       THEN drop("failed to end transaction")
       ELSE LET db2 == EndTransaction(db, Append(made.pipe, IncrCmd(storageEndTickKey)))
                disc == DiscardPending(comp, fail)
            IN [err |-> IF disc.err # "nil"
                        THEN "failed to discard pending transaction" ELSE "nil",
                db |-> db2, comp |-> disc.comp, archs |-> {}, committed |-> TRUE]

\* Mutant: the increment of the end tick key left out of the pipeline.
FinalizeTickForgetsEnd(db, seen, comp, archs, fail) ==
    LET made == makePipeOfRedisCommands(seen, fail)
        keep(e) == [err |-> e, db |-> db, comp |-> comp, archs |-> archs, committed |-> FALSE]
    IN IF made.err # "nil"
       THEN keep("failed to make redis commands pipe")
       ELSE IF fail = "EndTransaction"
       THEN keep("failed to end transaction")
       ELSE LET disc == DiscardPending(comp, fail)
            IN [err |-> IF disc.err # "nil"
                        THEN "failed to discard pending transaction" ELSE "nil",
                db |-> EndTransaction(db, made.pipe), comp |-> disc.comp,
                archs |-> {}, committed |-> TRUE]

\* tick.go:88-120: the pipeline is built from the mutation set as it was read
\* at line 92 (seen), committed to the store as it is at line 105 (db), and the
\* memory is cleared as it is at lines 111-113 (comp, archs).
FinalizeTickResult(db, seen, comp, archs, fail) ==
    LET made == makePipeOfRedisCommands(seen, fail)
        keep(e) == [err |-> e, db |-> db, comp |-> comp, archs |-> archs, committed |-> FALSE]
    IN IF made.err # "nil"
       THEN keep("failed to make redis commands pipe")
       ELSE IF fail = "Incr"
       THEN keep("failed to increment end tick key")
       ELSE IF fail = "EndTransaction"
       THEN keep("failed to end transaction")
       ELSE LET db2 == EndTransaction(db, Append(made.pipe, IncrCmd(storageEndTickKey)))
                disc == DiscardPending(comp, fail)
            IN [err |-> IF disc.err # "nil"
                        THEN "failed to discard pending transaction" ELSE "nil",
                db |-> db2, comp |-> disc.comp, archs |-> {}, committed |-> TRUE]

\* The committed call ends the tick that was in flight.
Resolved == [inflight EXCEPT !.phase = IF @ = "recovered" THEN "resolved" ELSE "none"]

\* The mutation set as an unsynchronized read that began with the set at
\* `before` can return it: every key as it was then or as it is now.
TornReads(before) ==
    {m \in [CompKeys -> {Nil} \cup {Some(v) : v \in CompVals}] :
        \A k \in CompKeys : m[k] \in {before[k], compValues[k]}}

\* tick.go:92: makePipeOfRedisCommands begins to read the mutation set.
FinalizeTickBegin(c) ==
    /\ calls[c] = Idle
    /\ calls' = [calls EXCEPT ![c] = [Idle EXCEPT !.op = "FinalizeTick", !.pos = "reading",
                                                 !.seen = compValues]]
    /\ ret' = Running
    /\ serial' = (serial /\ start = end + 1)
    /\ UNCHANGED <<dbStorage, compValues, pendingArchIDs, inflight>>

\* tick.go:92-103: makePipeOfRedisCommands returns the pipeline and the end
\* increment is queued on it, or one of the two fails and the call returns.
FinalizeTickMakePipe(c, fail) ==
    /\ calls[c].op = "FinalizeTick" /\ calls[c].pos = "reading"
    /\ \E m \in TornReads(calls[c].seen) :
          LET r == FinalizeTickResult(dbStorage, m, compValues, pendingArchIDs, fail)
          IN IF fail = "none"
             THEN /\ calls' = [calls EXCEPT
                        ![c].seen = m,
                        ![c].pipe = Append(makePipeOfRedisCommands(m, fail).pipe,
                                           IncrCmd(storageEndTickKey)),
                        ![c].pos = "counted"]
                  /\ ret' = Running
                  /\ UNCHANGED <<dbStorage, compValues, pendingArchIDs>>
             ELSE /\ calls' = [calls EXCEPT ![c] = Idle]
                  /\ ret' = Returned("FinalizeTick", r.err)
                  /\ dbStorage' = r.db
                  /\ compValues' = r.comp
                  /\ pendingArchIDs' = r.archs
    /\ UNCHANGED <<inflight, serial>>

\* tick.go:105-109: the pipeline is committed, or the commit fails and the call
\* returns.
FinalizeTickEndTransaction(c, fail) ==
    LET r == FinalizeTickResult(dbStorage, calls[c].seen, compValues, pendingArchIDs, fail)
    IN /\ calls[c].op = "FinalizeTick" /\ calls[c].pos = "counted"
       /\ dbStorage' = r.db
       /\ IF r.committed
          THEN /\ calls' = [calls EXCEPT ![c].pos = "committed"]
               /\ ret' = Running
               /\ inflight' = Resolved
               /\ UNCHANGED <<compValues, pendingArchIDs>>
          ELSE /\ calls' = [calls EXCEPT ![c] = Idle]
               /\ ret' = Returned("FinalizeTick", r.err)
               /\ compValues' = r.comp
               /\ pendingArchIDs' = r.archs
               /\ UNCHANGED inflight
       /\ UNCHANGED serial

\* tick.go:111-119: pendingArchIDs reset, the mutation set discarded, the call
\* returns.
FinalizeTickDiscard(c, fail) ==
    LET r == FinalizeTickResult(dbStorage, calls[c].seen, compValues, pendingArchIDs, fail)
    IN /\ calls[c].op = "FinalizeTick" /\ calls[c].pos = "committed"
       /\ compValues' = r.comp
       /\ pendingArchIDs' = r.archs
       /\ ret' = Returned("FinalizeTick", r.err)
       /\ calls' = [calls EXCEPT ![c] = Idle]
       /\ UNCHANGED <<dbStorage, inflight, serial>>

\* ------------------------------------------------------------------ Recover
\* Where a call can fail: the read of the journal key (tick.go:127-130) or the
\* decoding of the value read (tick.go:131-134).
RecoverFails == {"none", "GetBytes", "codec.Decode"}

\* tick.go:140-150: entries replayed in journal order; a type ID with no
\* descriptor leaves a nil interface in tx, and tx.Decode panics.
RECURSIVE Replay(_, _, _)
Replay(pending, ids, pool) ==
    IF pending = <<>> THEN [err |-> "nil", pool |-> pool]
    ELSE LET p == Head(pending)
         IN IF p.TypeID \notin ids
            THEN [err |-> "panic", pool |-> EmptyPool]
            ELSE IF ~DecodeOK(p.TypeID, p.Data)
            THEN [err |-> "decode", pool |-> EmptyPool]
            ELSE Replay(Tail(pending), ids,
                        AddTransaction(pool, p.TypeID, Decode(p.TypeID, p.Data), p.Tx))

\* tick.go:124-151
RecoverResult(db, txs, fail) ==
    IF fail = "GetBytes"
    THEN [err |-> "backend", pool |-> EmptyPool]
    ELSE IF db[storagePendingTransactionKey] = Nil
    THEN [err |-> "redis: nil", pool |-> EmptyPool]
    ELSE IF fail = "codec.Decode"
    THEN [err |-> "codec", pool |-> EmptyPool]
    ELSE Replay(CodecDecode(db[storagePendingTransactionKey][1]), DescIDs(txs), EmptyPool)

\* Mutant: a journal that was read is emptied.
RecoverConsumesJournal(txs, fail) ==
    LET r == RecoverResult(dbStorage, txs, fail)
    IN /\ ret' = [Returned("Recover", r.err) EXCEPT !.txs = txs, !.pool = r.pool]
       /\ inflight' = IF r.err = "nil" /\ inflight.phase = "interrupted"
                      THEN [inflight EXCEPT !.phase = "recovered"] ELSE inflight
       /\ dbStorage' = IF r.err = "nil"
                       THEN [dbStorage EXCEPT ![storagePendingTransactionKey] = Some(<<>>)]
                       ELSE dbStorage
       /\ UNCHANGED <<compValues, pendingArchIDs, serial, calls>>

Recover(txs, fail) ==
    LET r == RecoverResult(dbStorage, txs, fail)
    IN /\ ret' = [Returned("Recover", r.err) EXCEPT !.txs = txs, !.pool = r.pool]
       /\ inflight' = IF r.err = "nil" /\ inflight.phase = "interrupted"
                      THEN [inflight EXCEPT !.phase = "recovered"] ELSE inflight
       /\ UNCHANGED <<dbStorage, compValues, pendingArchIDs, serial, calls>>

\* ----------------------------------------------------------- GetTickNumbers
\* Mutant: the end tick read from the start tick key.
GetTickNumbersSameKey(db, failStart, failEnd) ==
    IF failStart \/ failEnd
    THEN [err |-> "backend", start |-> 0, end |-> 0]
    ELSE [err |-> "nil", start |-> ReadUInt(db[storageStartTickKey]),
          end |-> ReadUInt(db[storageStartTickKey])]

\* Mutant: redis.Nil returned to the caller like any other error.
GetTickNumbersNilIsError(db, failStart, failEnd) ==
    IF failStart \/ failEnd
    THEN [err |-> "backend", start |-> 0, end |-> 0]
    ELSE IF db[storageStartTickKey] = Nil \/ db[storageEndTickKey] = Nil
    THEN [err |-> "redis: nil", start |-> 0, end |-> 0]
    ELSE [err |-> "nil", start |-> db[storageStartTickKey][1],
          end |-> db[storageEndTickKey][1]]

\* tick.go:33-50 on one state of the store.
GetTickNumbersResult(db, failStart, failEnd) ==
    IF failStart \/ failEnd
    THEN [err |-> "backend", start |-> 0, end |-> 0]
    ELSE [err |-> "nil", start |-> ReadUInt(db[storageStartTickKey]),
          end |-> ReadUInt(db[storageEndTickKey])]

\* tick.go:35-41: the start tick key is read; an error other than redis.Nil
\* is returned.
GetTickNumbersStart(c, failStart) ==
    LET r == GetTickNumbersResult(dbStorage, failStart, FALSE)
    IN /\ calls[c] = Idle
       /\ IF r.err # "nil"
          THEN /\ ret' = Returned("GetTickNumbers", r.err)
               /\ UNCHANGED calls
          ELSE /\ ret' = Running
               /\ calls' = [calls EXCEPT ![c] =
                                [Idle EXCEPT !.op = "GetTickNumbers", !.pos = "start read",
                                             !.got = r.start]]
       /\ UNCHANGED <<dbStorage, compValues, pendingArchIDs, inflight, serial>>

\* tick.go:42-49: the end tick key is read, and the call returns the start it
\* read before with the end it reads now.
GetTickNumbersEnd(c, failEnd) ==
    LET r == GetTickNumbersResult(dbStorage, FALSE, failEnd)
    IN /\ calls[c].op = "GetTickNumbers"
       /\ ret' = [Returned("GetTickNumbers", r.err) EXCEPT
                    !.start = IF r.err = "nil" THEN calls[c].got ELSE 0,
                    !.end = r.end]
       /\ calls' = [calls EXCEPT ![c] = Idle]
       /\ UNCHANGED <<dbStorage, compValues, pendingArchIDs, inflight, serial>>

\* ------------------------------------------------- simulation and the process
\* A system of the simulation records one component write; the first write of
\* the last component key is to an entity of a new archetype.
NewArchIDs(k) == IF k = CompKeySeq[Len(CompKeySeq)] THEN ArchIDs ELSE {}

RecordMutation(k, v) ==
    /\ compValues' = [compValues EXCEPT ![k] = Some(v)]
    /\ pendingArchIDs' = pendingArchIDs \cup NewArchIDs(k)
    /\ ret' = Returned("RecordMutation", "nil")
    /\ UNCHANGED <<dbStorage, inflight, serial, calls>>

\* The process dies and restarts: everything in memory is lost, the calls in
\* progress with it.
Restart ==
    /\ compValues' = NoPending
    /\ pendingArchIDs' = {}
    /\ calls' = [c \in Callers |-> Idle]
    /\ pre' = NoSnapshot
    /\ pc' = "boot"
    /\ ret' = Returned("Crash", "nil")
    /\ inflight' = IF inflight.phase \in {"started", "recovered"}
                   THEN [inflight EXCEPT !.phase = "interrupted"] ELSE inflight
    /\ UNCHANGED <<dbStorage, serial>>

Crash ==
    /\ crashes < MaxCrash
    /\ crashes' = crashes + 1
    /\ Restart

Init ==
    /\ dbStorage = [k \in KeySpace |-> Nil]
    /\ compValues = NoPending
    /\ pendingArchIDs = {}
    /\ pc = "boot"
    /\ ret = Returned("New", "nil")
    /\ inflight = [n |-> 0, txs |-> <<>>, pool |-> EmptyPool, phase |-> "none"]
    /\ serial = TRUE
    /\ crashes = 0
    /\ calls = [c \in Callers |-> Idle]
    /\ pre = NoSnapshot

\* ------------------------------------------------------ the simulation loop
\* One caller: the loop makes its calls one after the other and waits for each
\* to return; between two steps of a call only a crash can happen.
LoopGetTickNumbers ==
    /\ pc = "boot"
    /\ \/ /\ \E failStart \in BOOLEAN : GetTickNumbersStart(1, failStart)
          /\ pc' = "boot"
       \/ /\ \E failEnd \in BOOLEAN : GetTickNumbersEnd(1, failEnd)
          /\ pc' = IF ret'.err # "nil" THEN "boot"
                   ELSE IF ret'.start # ret'.end THEN "recover" ELSE "start"
    /\ Remember
    /\ UNCHANGED crashes

\* A panic of Recover ends the process, which starts again; the loop calls
\* Recover before any mutation is recorded, so no memory is lost with it.
LoopRecover ==
    /\ pc = "recover"
    /\ NoCall
    /\ \E fail \in RecoverFails : Recover(Registry, fail)
    /\ pc' = IF ret'.err = "nil" THEN "sim"
             ELSE IF ret'.err = "panic" THEN "boot" ELSE "recover"
    /\ Remember
    /\ UNCHANGED crashes

\* What the loop calls StartNextTick with: any pool it can assemble, and any
\* failing step of the backend (a call that fails leaves the same state
\* whatever its pool, so one pool stands for all of them there).
LoopStartInputs ==
    (Pools \X {"none"}) \cup ({BuildPool(<<<<1, 1>>>>)} \X StartFails)

LoopStartNextTick ==
    /\ pc = "start"
    /\ NoCall
    /\ start < MaxTick
    /\ \E in \in LoopStartInputs : StartNextTick(Registry, in[1], in[2])
    /\ pc' = IF ret'.err = "nil" THEN "sim" ELSE "start"
    /\ Remember
    /\ UNCHANGED crashes

LoopSimulate ==
    /\ pc = "sim"
    /\ NoCall
    /\ \E k \in CompKeys, v \in CompVals : RecordMutation(k, v)
    /\ Remember
    /\ UNCHANGED <<pc, crashes>>

LoopFinalizeTick ==
    /\ pc \in {"sim", "finalize"}
    /\ \/ /\ end <= MaxTick
          /\ FinalizeTickBegin(1)
       \/ \E fail \in {"none", "makePipe", "Incr"} : FinalizeTickMakePipe(1, fail)
       \/ \E fail \in {"none", "EndTransaction"} : FinalizeTickEndTransaction(1, fail)
       \/ \E fail \in {"none", "DiscardPending"} : FinalizeTickDiscard(1, fail)
    /\ pc' = IF ret' = Running THEN pc
             ELSE IF ret'.err = "nil" THEN "start" ELSE "finalize"
    /\ Remember
    /\ UNCHANGED crashes

Next ==
    \/ LoopGetTickNumbers
    \/ LoopRecover
    \/ LoopStartNextTick
    \/ LoopSimulate
    \/ LoopFinalizeTick
    \/ Crash

Spec == Init /\ [][Next]_vars

\* The steps the loop takes when the backend answers, each named by the
\* position of the call it is taken from: the loop retries a failed call from
\* its beginning, and no step of the backend fails forever.
GetTickNumbersPositions == {"idle", "start read"}
FinalizeTickPositions == {"idle", "reading", "counted", "committed"}

LoopGetTickNumbersOK(pos) ==
    /\ pc = "boot"
    /\ calls[1].pos = pos
    /\ \/ /\ GetTickNumbersStart(1, FALSE)
          /\ pc' = "boot"
       \/ /\ GetTickNumbersEnd(1, FALSE)
          /\ pc' = IF ret'.start # ret'.end THEN "recover" ELSE "start"
    /\ Remember
    /\ UNCHANGED crashes

LoopRecoverOK ==
    /\ pc = "recover"
    /\ NoCall
    /\ Recover(Registry, "none")
    /\ ret'.err = "nil"
    /\ pc' = "sim"
    /\ Remember
    /\ UNCHANGED crashes

LoopFinalizeTickOK(pos) ==
    /\ pc \in {"sim", "finalize"}
    /\ calls[1].pos = pos
    /\ \/ /\ end <= MaxTick
          /\ FinalizeTickBegin(1)
       \/ FinalizeTickMakePipe(1, "none")
       \/ FinalizeTickEndTransaction(1, "none")
       \/ FinalizeTickDiscard(1, "none")
    /\ pc' = IF ret' = Running THEN pc ELSE "start"
    /\ Remember
    /\ UNCHANGED crashes

SpecLive ==
    /\ Init /\ [][Next]_vars
    /\ \A pos \in GetTickNumbersPositions : SF_vars(LoopGetTickNumbersOK(pos))
    /\ WF_vars(LoopRecoverOK)
    /\ \A pos \in FinalizeTickPositions : SF_vars(LoopFinalizeTickOK(pos))

\* ------------ the tick operations called in any order by one caller, one
\* ------------ call after the other, with any descriptor list and any pool of
\* ------------ encodable payloads, on a backend that does not fail
CallGetTickNumbers ==
    /\ GetTickNumbersStart(1, FALSE) \/ GetTickNumbersEnd(1, FALSE)
    /\ Remember
    /\ UNCHANGED <<pc, crashes>>

CallRecover ==
    /\ NoCall
    /\ \E txs \in DescLists : Recover(txs, "none")
    /\ Remember
    /\ UNCHANGED <<pc, crashes>>

CallStartNextTick ==
    /\ NoCall
    /\ start < MaxTick
    /\ \E txs \in DescLists, pool \in EncodablePools : StartNextTick(txs, pool, "none")
    /\ Remember
    /\ UNCHANGED <<pc, crashes>>

CallFinalizeTick ==
    /\ \/ /\ end < MaxTick
          /\ FinalizeTickBegin(1)
       \/ FinalizeTickMakePipe(1, "none")
       \/ FinalizeTickEndTransaction(1, "none")
       \/ FinalizeTickDiscard(1, "none")
    /\ Remember
    /\ UNCHANGED <<pc, crashes>>

CallCrash ==
    /\ Restart
    /\ UNCHANGED crashes

NextAny ==
    \/ CallGetTickNumbers
    \/ CallRecover
    \/ CallStartNextTick
    \/ CallFinalizeTick
    \/ CallCrash

SpecAny == Init /\ [][NextAny]_vars

\* ------------ StartNextTick, Recover and FinalizeTick only, in any order, with
\* ------------ any descriptor list: what is written to the journal and read back
NextJournal ==
    \/ CallStartNextTick
    \/ CallRecover
    \/ CallFinalizeTick

SpecJournal == Init /\ [][NextJournal]_vars

\* The store, the memory and the last result as they were when the call that
\* takes the step began (a call of one step begins in the state of the step).
Pre == IF calls[1] = Idle THEN Snapshot ELSE pre
PreStart == ReadUInt(Pre.db[storageStartTickKey])
PreEnd == ReadUInt(Pre.db[storageEndTickKey])

\* ===================================================================== claims

\* C1: in every state reachable by the simulation loop (with retries, backend
\* failures and crashes) the durable counters satisfy 0 <= end <= start <= end + 1.
CounterInvariant == 0 <= end /\ end <= start /\ start <= end + 1

\* A StartNextTick committed and no FinalizeTick committed since.
Open == inflight.phase \in {"started", "interrupted", "recovered"}

\* What a pool lets a system observe: per type, the ordered (payload, source
\* transaction) pairs.
Observed(pool) ==
    [id \in MsgIDs |-> [i \in 1..Len(pool[id]) |-> <<pool[id][i].Msg, pool[id][i].Tx>>]]

\* C2 as stated: for any pool and any descriptor list, Recover with the
\* descriptors of a committed, unfinalized StartNextTick returns no error and a
\* pool with the same types and per-type ordered (payload, source transaction) pairs.
RecoveryEquivalenceAnyList ==
    (ret.op = "Recover" /\ Open /\ ret.txs = inflight.txs)
        => (ret.err = "nil" /\ Observed(ret.pool) = Observed(inflight.pool))

\* C2 amended: when every message type of the pool is the ID of exactly one
\* descriptor of the list and neither the journal read nor the decoding of the
\* value read fails, Recover with that list returns no error and a pool
\* observably equal to the one StartNextTick committed, also after a crash in
\* between.
RecoveryEquivalence ==
    (/\ ret.op = "Recover" /\ ret.err \notin {"backend", "codec"}
     /\ Open /\ ret.txs = inflight.txs
     /\ PoolTypes(inflight.pool) \subseteq DescIDs(inflight.txs)
     /\ Cardinality(DescIDs(inflight.txs)) = Len(inflight.txs))
        => (ret.err = "nil" /\ Observed(ret.pool) = Observed(inflight.pool))

RecoveryEquivalenceWitness ==
    /\ ret.op = "Recover" /\ ret.err = "nil"
    /\ inflight.phase = "recovered" /\ ret.txs = inflight.txs
    /\ \E id \in MsgIDs : Len(inflight.pool[id]) = 2
    /\ Observed(ret.pool) = Observed(inflight.pool)

\* C3: the journal and the start counter change together: in every durable
\* state the start counter counts the committed StartNextTick calls and the
\* journal holds exactly the pool of the last committed one (no journal before
\* the first), whatever step of a later StartNextTick failed.
StartNextTickAtomic ==
    /\ start = inflight.n
    /\ dbStorage[storagePendingTransactionKey] =
          IF inflight.n = 0 THEN Nil
          ELSE Some(CodecEncode(PendingOf(inflight.txs, inflight.pool)))

StartNextTickAtomicWitness ==
    /\ ret.op = "StartNextTick" /\ ret.err = "failed to increment start tick key"
    /\ start = 1 /\ inflight.pool # EmptyPool

\* C4: a step that changes the durable game state or the end counter changes
\* both: it writes every pending mutation and increments end by one; no step
\* leaves part of a mutation set durable.
FinalizeTickAtomic ==
    [][((\E k \in CompKeys : dbStorage'[k] # dbStorage[k]) \/ end' # end)
        => (/\ end' = end + 1
            /\ \A k \in CompKeys :
                  dbStorage'[k] = IF compValues[k] # Nil THEN compValues[k]
                                  ELSE dbStorage[k])]_vars

FinalizeTickAtomicWitness ==
    /\ ret.op = "FinalizeTick" /\ ret.err = "failed to increment end tick key"
    /\ \A k \in CompKeys : compValues[k] # Nil /\ dbStorage[k] = Nil
    /\ start = 1 /\ end = 0

\* C5: a StartNextTick call that returns nil leaves the start counter exactly
\* one greater and the end counter unchanged.
StartBumpsStartOnly ==
    [][(ret'.op = "StartNextTick" /\ ret'.err = "nil")
        => (start' = start + 1 /\ end' = end)]_vars

StartBumpsStartOnlyWitness ==
    /\ ret.op = "StartNextTick" /\ ret.err = "nil"
    /\ start = 1 /\ end = 0 /\ inflight.pool # EmptyPool

\* C6: a FinalizeTick call that returns nil leaves end exactly one greater
\* than it was when the call began, start unchanged, end equal to start, and
\* the in-memory mutation set and the pending archetype IDs empty.
FinalizeBumpsEndOnly ==
    [][(ret'.op = "FinalizeTick" /\ ret'.err = "nil")
        => (/\ end' = PreEnd + 1 /\ start' = PreStart /\ end' = start'
            /\ compValues' = NoPending /\ pendingArchIDs' = {})]_vars

\* C7: a FinalizeTick that fails building the pipeline, queuing the end
\* increment or committing returns an error and leaves the durable store, the
\* in-memory mutation set and the pending archetype IDs as they were when the
\* call began.
PreCommitErrors ==
    {"failed to make redis commands pipe", "failed to increment end tick key",
     "failed to end transaction"}

FinalizeFailureRetryable ==
    [][(ret'.op = "FinalizeTick" /\ ret'.err \in PreCommitErrors)
        => (/\ dbStorage' = Pre.db
            /\ compValues' = Pre.comp
            /\ pendingArchIDs' = Pre.archs)]_vars

FinalizeFailureRetryableWitness ==
    /\ ret.op = "FinalizeTick" /\ ret.err = "failed to end transaction"
    /\ compValues # NoPending /\ pendingArchIDs # {}
    /\ start = end + 1

\* C8: a StartNextTick call that returns an error leaves the durable store
\* (start, end, journal, game state) as it was before the call.
StartFailureUnchanged ==
    [][(ret'.op = "StartNextTick" /\ ret'.err # "nil") => dbStorage' = dbStorage]_vars

StartFailureUnchangedWitness ==
    /\ ret.op = "StartNextTick" /\ ret.err = "failed to end transaction"
    /\ start = 1 /\ end = 1
    /\ dbStorage[storagePendingTransactionKey] # Some(<<>>)

\* C9: a started, unfinalized tick (start = end + 1) always leads to
\* start = end, and start does not change while the tick is unfinished.
InterruptedTickResolvable ==
    /\ (start = end + 1) ~> (start = end)
    /\ [][start = end + 1 => start' = start]_vars

InterruptedTickResolvableWitness ==
    /\ ret.op = "FinalizeTick" /\ ret.err = "nil"
    /\ inflight.phase = "resolved" /\ crashes = 1
    /\ start = end /\ start = 1

\* C10 as stated: whatever the sequence of calls, StartNextTick never
\* increments start while start # end, and start and end never differ by more
\* than 1.
NoStartOverUnfinishedAnyCalls ==
    /\ [][(ret'.op = "StartNextTick" /\ start' # start) => start = end]_vars
    /\ [](end <= start /\ start <= end + 1)

\* C10 amended: StartNextTick does not look at the counters; in a sequence of
\* calls whose every StartNextTick is issued with start = end and every
\* FinalizeTick with start = end + 1, start and end never differ by more than 1
\* (end <= start <= end + 1).
NoStartOverUnfinished == serial => (end <= start /\ start <= end + 1)

NoStartOverUnfinishedWitness ==
    /\ serial /\ ret.op = "StartNextTick" /\ ret.err = "nil"
    /\ start = 2 /\ end = 1 /\ inflight.pool # EmptyPool

\* What GetUInt64 of a key gives the caller: 0 for a key never written.
AbsentIsZero(k) == IF dbStorage[k] = Nil THEN 0 ELSE dbStorage[k][1]

\* C11: GetTickNumbers reads a key that was never written as 0 and returns no
\* error (a fresh store gives (0, 0, nil), a store with only start written gives
\* (start, 0, nil)); a call whose read of start or of end fails in the backend
\* in any other way returns a non-nil error.
GetTickNumbersAbsentIsZero ==
    /\ [][\A failStart \in BOOLEAN :
            ((ret'.op = "GetTickNumbers" \/ calls'[1].op = "GetTickNumbers")
             /\ GetTickNumbersStart(1, failStart))
              => IF failStart
                 THEN ret'.op = "GetTickNumbers" /\ ret'.err # "nil"
                 ELSE /\ calls'[1].op = "GetTickNumbers"
                      /\ calls'[1].got = AbsentIsZero(storageStartTickKey)]_vars
    /\ [][\A failEnd \in BOOLEAN :
            (ret'.op = "GetTickNumbers" /\ GetTickNumbersEnd(1, failEnd))
              => IF failEnd
                 THEN ret'.err # "nil"
                 ELSE /\ ret'.err = "nil"
                      /\ ret'.start = calls[1].got
                      /\ ret'.start = AbsentIsZero(storageStartTickKey)
                      /\ ret'.end = AbsentIsZero(storageEndTickKey)]_vars

GetTickNumbersAbsentIsZeroWitness ==
    /\ ret.op = "GetTickNumbers" /\ ret.err = "nil"
    /\ dbStorage[storageStartTickKey] # Nil /\ dbStorage[storageEndTickKey] = Nil
    /\ ret.start = 1 /\ ret.end = 0

\* The journal holds an entry whose message type ID is not the ID of any
\* descriptor of the list.
JournalMismatch(txs) ==
    /\ dbStorage[storagePendingTransactionKey] # Nil
    /\ \E i \in 1..Len(dbStorage[storagePendingTransactionKey][1]) :
          CodecDecode(dbStorage[storagePendingTransactionKey][1])[i].TypeID
              \notin DescIDs(txs)

\* C12: when the journal contains an entry whose message type ID is not the ID
\* of any descriptor passed to Recover, Recover returns a "descriptor not found"
\* error and no pool.
RecoverReportsMismatch ==
    (ret.op = "Recover" /\ JournalMismatch(ret.txs))
        => (ret.err = "descriptor not found" /\ ret.pool = EmptyPool)

\* The entries of the durable journal.
Journal == CodecDecode(dbStorage[storagePendingTransactionKey][1])

\* The journal entries that record the i-th transaction of type id of a pool.
EntriesOf(pool, id, i) ==
    {j \in 1..Len(Journal) :
        /\ Journal[j].TypeID = id
        /\ Journal[j].TxHash = pool[id][i].TxHash
        /\ Journal[j].Data = Encode(id, pool[id][i].Msg)
        /\ Journal[j].Tx = pool[id][i].Tx}

\* The journal holds exactly one entry for each transaction of the pool and
\* nothing else.
JournalHoldsExactly(pool) ==
    /\ \A id \in MsgIDs : \A i \in 1..Len(pool[id]) :
          Cardinality(EntriesOf(pool, id, i)) = 1
    /\ \A j \in 1..Len(Journal) :
          \E id \in MsgIDs : \E i \in 1..Len(pool[id]) : j \in EntriesOf(pool, id, i)

\* C13 as stated: for any pool and any descriptor list, the journal committed
\* by StartNextTick holds exactly one entry for each transaction of the pool.
JournalCompleteAnyList ==
    inflight.n > 0 => JournalHoldsExactly(inflight.pool)

\* C13 amended: when every message type present in the pool is the ID of
\* exactly one descriptor of the list, the journal committed by StartNextTick
\* holds exactly one entry for each transaction of the pool, none omitted and
\* none twice.
JournalComplete ==
    (/\ inflight.n > 0
     /\ PoolTypes(inflight.pool) \subseteq DescIDs(inflight.txs)
     /\ Cardinality(DescIDs(inflight.txs)) = Len(inflight.txs))
        => JournalHoldsExactly(inflight.pool)

JournalCompleteWitness ==
    /\ ret.op = "StartNextTick" /\ ret.err = "nil"
    /\ inflight.txs = <<2, 1>>
    /\ \A id \in MsgIDs : Len(inflight.pool[id]) = 1
    /\ Len(Journal) = 2
    /\ JournalHoldsExactly(inflight.pool)

\* The source transactions of a sequence of journal entries or pool entries.
TxsOf(s) == [i \in 1..Len(s) |-> s[i].Tx]

\* The journal entries of one message type, in journal order.
JournalOfType(id) == SelectSeq(Journal, LAMBDA p : p.TypeID = id)

\* How many descriptors of the list have the given ID.
Count(txs, id) == Cardinality({i \in 1..Len(txs) : txs[i] = id})

\* The place of a message type in a descriptor list: the first descriptor
\* that has its ID.
FirstIdx(txs, id) ==
    CHOOSE i \in 1..Len(txs) : txs[i] = id /\ \A h \in 1..(i - 1) : txs[h] # id

\* The journal lists its entries grouped by message type, the types in the
\* order of the descriptor list, and the entries of one type in the order in
\* which the pool received their transactions.
GroupedByType(txs, pool) ==
    /\ \A j \in 1..Len(Journal) : Journal[j].TypeID \in DescIDs(txs)
    /\ \A j, k \in 1..Len(Journal) :
          j < k =>
            /\ FirstIdx(txs, Journal[j].TypeID) <= FirstIdx(txs, Journal[k].TypeID)
            /\ Journal[j].TypeID = Journal[k].TypeID =>
                 \E a, b \in 1..Len(pool[Journal[j].TypeID]) :
                    /\ a < b
                    /\ pool[Journal[j].TypeID][a].Tx = Journal[j].Tx
                    /\ pool[Journal[j].TypeID][b].Tx = Journal[k].Tx

\* C14 as stated: for any pool and any descriptor list, the journal written by
\* StartNextTick lists its entries grouped by message type in the order of the
\* descriptor list, within one type in the pool's submission order; Recover
\* appends the entries to the new pool in journal order, and the recovered
\* sequence of every type is the pool's sequence of that type.
JournalOrderAnyList ==
    /\ inflight.n > 0 => GroupedByType(inflight.txs, inflight.pool)
    /\ (ret.op = "Recover" /\ ret.err = "nil")
          => \A id \in MsgIDs :
                /\ TxsOf(ret.pool[id]) = TxsOf(JournalOfType(id))
                /\ Observed(ret.pool)[id] = Observed(inflight.pool)[id]

\* C14 amended: when no message type present in the pool is the ID of more
\* than one descriptor of the list, the journal lists its entries grouped by
\* message type in the order of the descriptor list, within one type in the
\* pool's submission order; Recover appends the entries to the new pool in
\* journal order, and for every type that is the ID of exactly one descriptor
\* the recovered sequence is the pool's sequence of that type, in the same order.
JournalOrder ==
    /\ (inflight.n > 0 /\ \A id \in PoolTypes(inflight.pool) : Count(inflight.txs, id) <= 1)
          => GroupedByType(inflight.txs, inflight.pool)
    /\ (ret.op = "Recover" /\ ret.err = "nil")
          => \A id \in MsgIDs :
                /\ TxsOf(ret.pool[id]) = TxsOf(JournalOfType(id))
                /\ Count(inflight.txs, id) = 1
                      => Observed(ret.pool)[id] = Observed(inflight.pool)[id]

JournalOrderWitness ==
    /\ ret.op = "Recover" /\ ret.err = "nil"
    /\ inflight.txs = <<2, 1>>
    /\ TxsOf(inflight.pool[1]) = <<1, 2>> /\ inflight.pool[2] = <<>>
    /\ TxsOf(Journal) = <<1, 2>>
    /\ TxsOf(ret.pool[1]) = <<1, 2>>
    /\ Observed(ret.pool) = Observed(inflight.pool)

\* C15: StartNextTick with an empty pool, called with the counters at (n, n)
\* on a backend that answers, returns nil, makes the counters (n + 1, n) and
\* overwrites the journal, whatever it held, with the empty sequence; Recover
\* on a journal holding the empty sequence returns an empty pool and no error.
EmptyTickOverwritesJournal ==
    /\ [](\A txs \in DescLists :
            StartNextTickResult(dbStorage, txs, EmptyPool, "none").err = "nil")
    /\ [][(/\ ret'.op = "StartNextTick" /\ ret'.err = "nil"
           /\ inflight'.pool = EmptyPool /\ start = end)
            => (/\ start' = start + 1 /\ end' = end
                /\ dbStorage'[storagePendingTransactionKey] = Some(<<>>))]_vars
    /\ []((ret.op = "Recover" /\ dbStorage[storagePendingTransactionKey] = Some(<<>>))
            => (ret.err = "nil" /\ ret.pool = EmptyPool))

EmptyTickOverwritesJournalWitness ==
    /\ ret.op = "Recover" /\ ret.err = "nil" /\ ret.pool = EmptyPool
    /\ dbStorage[storagePendingTransactionKey] = Some(<<>>)
    /\ inflight.pool = EmptyPool /\ inflight.phase = "started"
    /\ start = 2 /\ end = 1

\* C16: when the journal key has never been written, Recover returns an empty
\* pool and no error.
RecoverAcceptsAbsentJournal ==
    (ret.op = "Recover" /\ dbStorage[storagePendingTransactionKey] = Nil)
        => (ret.err = "nil" /\ ret.pool = EmptyPool)

\* ------------ the tick operations and the simulation's mutations in any
\* ------------ order: StartNextTick with any pool and any failing step, the
\* ------------ reads and FinalizeTick on a backend that answers
CallRecordMutation ==
    /\ NoCall
    /\ \E k \in CompKeys, v \in CompVals : RecordMutation(k, v)
    /\ Remember
    /\ UNCHANGED <<pc, crashes>>

\* The pools whose payloads all encode, and one-transaction pools whose payload
\* does not.
MemPools == EncodablePools \cup {BuildPool(<<<<id, BadMsg>>>>) : id \in MsgIDs}

\* What StartNextTick is called with: any of these pools on a backend that
\* answers, and a one-transaction pool with any failing step.
StartInputs ==
    (MemPools \X {"none"}) \cup ({BuildPool(<<<<1, 1>>>>)} \X StartFails)

CallStartNextTickFailing ==
    /\ NoCall
    /\ start < MaxTick
    /\ \E in \in StartInputs : StartNextTick(Registry, in[1], in[2])
    /\ Remember
    /\ UNCHANGED <<pc, crashes>>

NextMem ==
    \/ CallGetTickNumbers
    \/ CallRecover
    \/ CallStartNextTickFailing
    \/ CallRecordMutation
    \/ CallFinalizeTick

SpecMem == Init /\ [][NextMem]_vars

\* C17: a StartNextTick call, whether it returns nil or an error, leaves
\* unchanged every durable key other than the journal key and the start
\* counter key (the end counter and the game state) and the in-memory mutation
\* set with its pending archetype IDs.
StartNextTickFrame ==
    [][ret'.op = "StartNextTick"
        => (/\ \A k \in KeySpace \ {storagePendingTransactionKey, storageStartTickKey} :
                  dbStorage'[k] = dbStorage[k]
            /\ compValues' = compValues
            /\ pendingArchIDs' = pendingArchIDs)]_vars

StartNextTickFrameWitness ==
    /\ ret.op = "StartNextTick" /\ ret.err = "nil"
    /\ start = 2 /\ end = 1
    /\ dbStorage["c1"] # Nil /\ dbStorage["c2"] = Nil
    /\ compValues["c2"] # Nil /\ pendingArchIDs # {}
    /\ inflight.pool # EmptyPool

\* C18: no step of GetTickNumbers or Recover changes the durable store (start
\* counter, end counter, journal, game state) or the in-memory mutation set
\* and pending archetype IDs; a GetTickNumbers call made directly after
\* another returns the same values, and a Recover call directly after another
\* with the same descriptors returns the same error and an equal pool.
ReadsAreReadOnly ==
    /\ [][(ret'.op \in {"GetTickNumbers", "Recover"} \/ calls'[1].op = "GetTickNumbers")
            => (/\ dbStorage' = dbStorage
                /\ compValues' = compValues
                /\ pendingArchIDs' = pendingArchIDs)]_vars
    /\ [][(ret'.op = "GetTickNumbers" /\ Pre.ret.op = "GetTickNumbers")
            => (/\ ret'.err = Pre.ret.err
                /\ ret'.start = Pre.ret.start
                /\ ret'.end = Pre.ret.end)]_vars
    /\ [][(ret.op = "Recover" /\ ret'.op = "Recover" /\ ret'.txs = ret.txs)
            => (ret'.err = ret.err /\ ret'.pool = ret.pool)]_vars

ReadsAreReadOnlyWitness ==
    /\ ret.op = "Recover" /\ ret.err = "nil" /\ ret.pool # EmptyPool
    /\ compValues # NoPending /\ pendingArchIDs # {}
    /\ dbStorage["c1"] # Nil
    /\ start = 2 /\ end = 1

\* C19: a FinalizeTick call that returns a non-nil error, the error of
\* discarding the pending mutation set included, has not incremented the
\* durable end counter (it is what it was when the call began), and a loop
\* that retries FinalizeTick after every error never reaches end > start.
FinalizeErrorHidesNoCommit ==
    /\ [][(ret'.op = "FinalizeTick" /\ ret'.err # "nil") => end' = PreEnd]_vars
    /\ [](end <= start)

\* Every mutation that was in the set when the call began is in the given store.
MutationsDurable(db) == \A k \in CompKeys : Pre.comp[k] # Nil => db[k] = Pre.comp[k]

\* The step removes a mutation from the set or a pending archetype ID.
ClearsPending ==
    \/ \E k \in CompKeys : compValues[k] # Nil /\ compValues'[k] = Nil
    \/ \E a \in pendingArchIDs : a \notin pendingArchIDs'

\* C20: a step of FinalizeTick clears the mutation set or the pending
\* archetype IDs only in a state where the commit of that call's pipeline has
\* already succeeded (the call is past it, end is one greater than when the
\* call began and every mutation of the set is durable); after every
\* FinalizeTick that returns nil the store holds every mutation that was in
\* the set; and no other step of a running process (a failed call, a retry, a
\* read) clears them: only a crash loses them.
ClearedOnlyAfterCommit ==
    /\ [][(ClearsPending /\ ret'.op # "Crash")
            => (/\ calls[1].op = "FinalizeTick" /\ calls[1].pos = "committed"
                /\ end = PreEnd + 1
                /\ MutationsDurable(dbStorage))]_vars
    /\ [][(ret'.op = "FinalizeTick" /\ ret'.err = "nil") => MutationsDurable(dbStorage')]_vars

ClearedOnlyAfterCommitWitness ==
    /\ ret.op = "FinalizeTick" /\ ret.err = "nil"
    /\ compValues = NoPending /\ pendingArchIDs = {}
    /\ \A k \in CompKeys : dbStorage[k] # Nil
    /\ crashes = 1 /\ inflight.phase = "resolved"
    /\ start = 1 /\ end = 1

\* ------------ Two callers of one command buffer and the simulation recording
\* ------------ mutations beside them, on a backend that answers: StartNextTick
\* ------------ taken statement by statement, FinalizeTick and GetTickNumbers
\* ------------ step by step. tick.go holds no lock: a call starts whenever
\* ------------ its caller is idle.
StepPools == {EmptyPool, BuildPool(<<<<1, 1>>>>), BuildPool(<<<<2, 1>>>>)}

Starting == {c \in Callers : calls[c].op = "StartNextTick"}
Finalizing == {c \in Callers : calls[c].op = "FinalizeTick"}

\* tick.go:58: the call gets a pipeline of its own.
StepStartTransaction(c) ==
    /\ calls[c] = Idle
    /\ start + Cardinality(Starting) < MaxTick
    /\ \E pool \in StepPools :
          calls' = [calls EXCEPT ![c] = [Idle EXCEPT !.op = "StartNextTick",
                                                     !.pos = "open", !.pool = pool]]
    /\ ret' = Running
    /\ UNCHANGED pre
    /\ UNCHANGED <<dbStorage, compValues, pendingArchIDs, pc, inflight, serial, crashes>>

\* tick.go:65: the journal write queued on the call's pipeline.
StepAddPending(c) ==
    /\ calls[c].op = "StartNextTick" /\ calls[c].pos = "open"
    /\ calls' = [calls EXCEPT
          ![c].pipe = addPendingTransactionToPipe(@, Registry, calls[c].pool, "none").pipe,
          ![c].pos = "journalled"]
    /\ ret' = Running
    /\ UNCHANGED pre
    /\ UNCHANGED <<dbStorage, compValues, pendingArchIDs, pc, inflight, serial, crashes>>

\* tick.go:71
StepIncrStart(c) ==
    /\ calls[c].op = "StartNextTick" /\ calls[c].pos = "journalled"
    /\ calls' = [calls EXCEPT ![c].pipe = Append(@, IncrCmd(storageStartTickKey)),
                              ![c].pos = "queued"]
    /\ ret' = Running
    /\ UNCHANGED pre
    /\ UNCHANGED <<dbStorage, compValues, pendingArchIDs, pc, inflight, serial, crashes>>

\* tick.go:77-83: the pipeline committed, the call returns nil.
StepEndStart(c) ==
    /\ calls[c].op = "StartNextTick" /\ calls[c].pos = "queued"
    /\ dbStorage' = EndTransaction(dbStorage, calls[c].pipe)
    /\ ret' = Returned("StartNextTick", "nil")
    /\ inflight' = [n |-> inflight.n + 1, txs |-> Registry, pool |-> calls[c].pool,
                    phase |-> "started"]
    /\ serial' = (serial /\ start = end)
    /\ calls' = [calls EXCEPT ![c] = Idle]
    /\ UNCHANGED pre
    /\ UNCHANGED <<compValues, pendingArchIDs, pc, crashes>>

StepFinalizeTick(c) ==
    /\ \/ /\ end + Cardinality(Finalizing) < MaxTick
          /\ FinalizeTickBegin(c)
       \/ FinalizeTickMakePipe(c, "none")
       \/ FinalizeTickEndTransaction(c, "none")
       \/ FinalizeTickDiscard(c, "none")
    /\ UNCHANGED pre
    /\ UNCHANGED <<pc, crashes>>

StepGetTickNumbers(c) ==
    /\ GetTickNumbersStart(c, FALSE) \/ GetTickNumbersEnd(c, FALSE)
    /\ UNCHANGED pre
    /\ UNCHANGED <<pc, crashes>>

\* tick.go:111-113 while another call reads or clears the same maps, or the
\* simulation writes to them while a call reads them: the unsynchronized
\* access can end the process (the runtime's fatal error on concurrent map
\* access).
StepFatal(c) ==
    /\ \/ /\ calls[c].op = "FinalizeTick" /\ calls[c].pos = "committed"
          /\ \E d \in Callers \ {c} : calls[d].pos \in {"reading", "committed"}
       \/ /\ calls[c].op = "FinalizeTick" /\ calls[c].pos = "reading"
          /\ ret.op = "RecordMutation"
    /\ Restart
    /\ UNCHANGED crashes

\* The simulation records a mutation, whatever calls are in progress.
StepRecordMutation ==
    /\ \E k \in CompKeys, v \in CompVals : RecordMutation(k, v)
    /\ UNCHANGED pre
    /\ UNCHANGED <<pc, crashes>>

NextStep ==
    \/ \E c \in Callers : StepStartTransaction(c)
    \/ \E c \in Callers : StepAddPending(c)
    \/ \E c \in Callers : StepIncrStart(c)
    \/ \E c \in Callers : StepEndStart(c)
    \/ \E c \in Callers : StepFinalizeTick(c)
    \/ \E c \in Callers : StepGetTickNumbers(c)
    \/ \E c \in Callers : StepFatal(c)
    \/ StepRecordMutation

SpecStep == Init /\ [][NextStep]_vars

\* The call of c has begun a pipeline and has not submitted it yet.
PipelineOpen(c) == calls[c].pos \in {"open", "journalled", "queued", "reading", "counted"}

\* Every commit leaves the store as the committing call, run alone from the
\* store and memory of that moment, would leave it: the committed result is
\* that of the calls one after the other in the order of their commits.
CommitsAreSerial ==
    [][\A c \in Callers :
          (/\ calls[c].pos \in {"queued", "counted"} /\ calls'[c].pos # calls[c].pos
           /\ ret'.op # "Crash")
            => dbStorage' =
                 IF calls[c].op = "StartNextTick"
                 THEN StartNextTickResult(dbStorage, Registry, calls[c].pool, "none").db
                 ELSE FinalizeTickResult(dbStorage, compValues, compValues,
                                         pendingArchIDs, "none").db]_vars

\* C21: when calls of StartNextTick and FinalizeTick on one command buffer
\* overlap, a pipeline is begun only after every other one was built and
\* submitted (no two pipelines are open at once), and the committed result is
\* that of some serial order of the calls.
PipelinesDoNotInterleave ==
    /\ [](\A c, d \in Callers : (c # d /\ PipelineOpen(c)) => ~PipelineOpen(d))
    /\ CommitsAreSerial

====
